---- MODULE Spec2Model ----
(***************************************************************************)
(* Model of the two Titanic scripts of project1:                           *)
(*   project1_data_cleaning.py  (the Cleaner)                              *)
(*   project1_eda.py            (the Analyzer)                             *)
(* Both are straight-line batch programs over one in-memory table.  Each   *)
(* numbered section of a script is one action; the position in the script  *)
(* is the variable pc.  Files are variables: raw (the Cleaner's input),    *)
(* cleaned (titanic_cleaned.csv), outDir / artifacts (eda_outputs).        *)
(*                                                                         *)
(* Values.  A character is a one-character string; a text value and a     *)
(* column name are sequences of characters, so that strip / lower / upper  *)
(* are computed.  A numeric cell holds twice the number it stands for, so  *)
(* that the median of an even count of integers (a half) is a cell value.  *)
(* Numbers are finite: the table holds no inf.  Library calls follow pandas *)
(* 2 (object dtype for text read from a file).  The contents of the charts *)
(* and of the statistics and correlation reports are not modelled, only    *)
(* that they are written.                                                  *)
(***************************************************************************)
EXTENDS Integers, Sequences, FiniteSets, TLC

VARIABLES pc, raw, cleaned, df, prev, run, exc, usedUnknown,
          medianUndefined, outDir, artifacts, msgs, outlier_report, fences,
          survival_by_sex, survival_by_agebin

vars == <<pc, raw, cleaned, df, prev, run, exc, usedUnknown,
          medianUndefined, outDir, artifacts, msgs, outlier_report, fences,
          survival_by_sex, survival_by_agebin>>

----------------------------------------------------------------------------
(* Characters and text *)

UpperCase == <<"A","B","C","D","E","F","G","H","I","J","K","L","M",
               "N","O","P","Q","R","S","T","U","V","W","X","Y","Z">>
LowerCase == <<"a","b","c","d","e","f","g","h","i","j","k","l","m",
               "n","o","p","q","r","s","t","u","v","w","x","y","z">>

\* Code-point order of the characters used: space < A..Z < a..z.
Alphabet == <<" ">> \o UpperCase \o LowerCase

CharIdx(c) == CHOOSE i \in 1..Len(Alphabet) : Alphabet[i] = c

IsUpperCh(c) == \E i \in 1..Len(UpperCase) : UpperCase[i] = c
IsLowerCh(c) == \E i \in 1..Len(LowerCase) : LowerCase[i] = c

LowerCh(c) ==
    IF IsUpperCh(c)
    THEN LowerCase[CHOOSE i \in 1..Len(UpperCase) : UpperCase[i] = c]
    ELSE c

UpperCh(c) ==
    IF IsLowerCh(c)
    THEN UpperCase[CHOOSE i \in 1..Len(LowerCase) : LowerCase[i] = c]
    ELSE c

\* str.lower() and str.upper()
StrLower(s) == [i \in 1..Len(s) |-> LowerCh(s[i])]
StrUpper(s) == [i \in 1..Len(s) |-> UpperCh(s[i])]

\* str.strip(): leading and trailing whitespace removed
RECURSIVE LStrip(_)
LStrip(s) == IF s # <<>> /\ Head(s) = " " THEN LStrip(Tail(s)) ELSE s

RECURSIVE RStrip(_)
RStrip(s) ==
    IF s # <<>> /\ s[Len(s)] = " " THEN RStrip(SubSeq(s, 1, Len(s) - 1)) ELSE s

StrStrip(s) == RStrip(LStrip(s))

\* Python's < on str: lexicographic by code point
RECURSIVE StrLess(_, _)
StrLess(a, b) ==
    IF b = <<>> THEN FALSE
    ELSE IF a = <<>> THEN TRUE
    ELSE IF Head(a) # Head(b) THEN CharIdx(Head(a)) < CharIdx(Head(b))
    ELSE StrLess(Tail(a), Tail(b))

----------------------------------------------------------------------------
(* Cells, tables and the delimited text file *)

NA == [k |-> "na", n |-> 0, s |-> <<>>]
Num(v) == [k |-> "num", n |-> 2 * v, s |-> <<>>]
Half(h) == [k |-> "num", n |-> h, s |-> <<>>]
Str(s) == [k |-> "str", n |-> 0, s |-> s]

IsNA(c) == c.k = "na"

Absent == [exists |-> FALSE, cols |-> <<>>, rows |-> <<>>]
File(cols, rows) == [exists |-> TRUE, cols |-> cols, rows |-> rows]

NoTable == [cols |-> <<>>, dtype |-> <<>>, rows |-> <<>>]

Column(t, j) == [i \in 1..Len(t.rows) |-> t.rows[i][j]]

ColIdx(t, name) == CHOOSE j \in 1..Len(t.cols) : t.cols[j] = name
HasCol(t, name) == \E j \in 1..Len(t.cols) : t.cols[j] = name

\* df.isna().sum() for one column
MissingCount(t, j) == Cardinality({i \in 1..Len(t.rows) : IsNA(t.rows[i][j])})
PresentCount(t, j) == Len(t.rows) - MissingCount(t, j)

IsNumeric(t, j) == t.dtype[j] = "num"

\* The text fields pandas reads as missing, among texts of letters
NaValues == { <<>>, <<"N","A">>, <<"N","U","L","L">>, <<"N","a","N">>,
              <<"N","o","n","e">>, <<"n","a","n">>, <<"n","u","l","l">> }

ParseField(f) == IF f.k = "str" /\ f.s \in NaValues THEN NA ELSE f

\* An inference that gives a column without text a numeric dtype even when it
\* has no rows
InferDtypeNumericWhenEmpty(cells) ==
    IF \A i \in 1..Len(cells) : cells[i].k \in {"na", "num"} THEN "num"
    ELSE "object"

\* The dtype pandas infers for a parsed column: no rows gives object; only
\* numbers and missing values give a numeric dtype; text gives object.
InferDtype(cells) ==
    IF Len(cells) = 0 THEN "object"
    ELSE IF \A i \in 1..Len(cells) : cells[i].k \in {"na", "num"} THEN "num"
    ELSE "object"

\* pd.read_csv
ReadCsv(f) ==
    LET rows == [i \in 1..Len(f.rows) |->
                    [j \in 1..Len(f.cols) |-> ParseField(f.rows[i][j])]]
    IN [cols |-> f.cols,
        dtype |-> [j \in 1..Len(f.cols) |->
                      InferDtype([i \in 1..Len(rows) |-> rows[i][j]])],
        rows |-> rows]

\* df.to_csv(index=False): a missing value is written as an empty field
FormatCell(c) == IF IsNA(c) THEN Str(<<>>) ELSE c

WriteCsv(t) ==
    File(t.cols, [i \in 1..Len(t.rows) |->
                     [j \in 1..Len(t.cols) |-> FormatCell(t.rows[i][j])]])

----------------------------------------------------------------------------
(* Column names the scripts look for *)

NSex == <<"S","e","x">>
NTicket == <<"T","i","c","k","e","t">>
NEmbarked == <<"E","m","b","a","r","k","e","d">>
TSex == <<"s","e","x">>
TSurvived == <<"s","u","r","v","i","v","e","d">>
TAge == <<"a","g","e">>
Unknown == <<"U","n","k","n","o","w","n">>

----------------------------------------------------------------------------
(* The Cleaner's transformations *)

\* The members of a set of indices, in increasing order
RECURSIVE Ascending(_)
Ascending(S) ==
    IF S = {} THEN <<>>
    ELSE LET m == CHOOSE x \in S : \A y \in S : x <= y
         IN <<m>> \o Ascending(S \ {m})

\* df.drop_duplicates(keep="last"): a row is kept when no later row equals it
DropDuplicatesKeepLast(t) ==
    LET idx == Ascending({i \in 1..Len(t.rows) :
                             \A j \in (i + 1)..Len(t.rows) : t.rows[j] # t.rows[i]})
    IN [t EXCEPT !.rows = [k \in 1..Len(idx) |-> t.rows[idx[k]]]]

\* df.drop_duplicates().reset_index(drop=True): a row is kept when no
\* earlier row equals it in every column (missing equals missing).
DropDuplicates(t) ==
    LET idx == Ascending({i \in 1..Len(t.rows) :
                             \A j \in 1..(i - 1) : t.rows[j] # t.rows[i]})
    IN [t EXCEPT !.rows = [k \in 1..Len(idx) |-> t.rows[idx[k]]]]

\* for col in text_cols: df[col] = df[col].astype("string").str.strip()
StripText(t) ==
    [t EXCEPT
       !.dtype = [j \in 1..Len(t.cols) |->
                     IF t.dtype[j] = "object" THEN "string" ELSE t.dtype[j]],
       !.rows = [i \in 1..Len(t.rows) |->
                    [j \in 1..Len(t.cols) |->
                        IF t.dtype[j] = "object" /\ t.rows[i][j].k = "str"
                        THEN Str(StrStrip(t.rows[i][j].s))
                        ELSE t.rows[i][j]]]]

\* A lookup that ignores the case of the column name
DesignatedIgnoreCase(t, name) ==
    {j \in 1..Len(t.cols) : StrLower(t.cols[j]) = StrLower(name)}

\* if "<name>" in df.columns: df["<name>"] = ...   The columns the statement
\* touches: the one whose name is exactly <name>.
Designated(t, name) == {j \in 1..Len(t.cols) : t.cols[j] = name}

\* The .str accessor exists on text columns only; on a numeric column it
\* raises AttributeError.
StrAccessorOk(t, name) ==
    \A j \in Designated(t, name) : t.dtype[j] \in {"object", "string"}

LowerCell(c) == IF c.k = "str" THEN Str(StrLower(c.s)) ELSE c
UpperCell(c) == IF c.k = "str" THEN Str(StrUpper(c.s)) ELSE c
\* .replace({"": pd.NA})
EmptyToNA(c) == IF c.k = "str" /\ c.s = <<>> THEN NA ELSE c

\* The assignment df[col] = <op>(df[col]) for the columns in cols
ApplyCell(op, c) ==
    CASE op = "lower" -> LowerCell(c)
      [] op = "upper" -> UpperCell(c)
      [] op = "empty_to_na" -> EmptyToNA(c)

MapCells(t, cols, op) ==
    [t EXCEPT !.rows = [i \in 1..Len(t.rows) |->
                           [j \in 1..Len(t.cols) |->
                               IF j \in cols THEN ApplyCell(op, t.rows[i][j])
                               ELSE t.rows[i][j]]]]

\* Section 5 of the Cleaner when no statement raises
NormalizeText(t) ==
    LET t1 == StripText(t)
        t2 == MapCells(t1, Designated(t1, NSex), "lower")
        t3 == MapCells(t2, Designated(t2, NTicket), "upper")
    IN MapCells(t3, Designated(t3, NEmbarked), "empty_to_na")

NormalizeRaises(t) ==
    LET t1 == StripText(t)
    IN ~StrAccessorOk(t1, NSex) \/ ~StrAccessorOk(t1, NTicket)

Threshold == 60

\* A threshold test that also drops a column at exactly the threshold
ExceedsThresholdInclusive(t, j) ==
    MissingCount(t, j) * 100 >= Threshold * Len(t.rows)

\* missing_ratio = df.isna().mean() * 100;  missing_ratio > 60.
\* With no rows the mean is NaN and the comparison is False.
ExceedsThreshold(t, j) ==
    /\ Len(t.rows) > 0
    /\ MissingCount(t, j) * 100 > Threshold * Len(t.rows)

DropCols(t) == {j \in 1..Len(t.cols) : ExceedsThreshold(t, j)}

\* A drop whose result is not kept
KeepAllColumns(t) == t

\* df.drop(columns=drop_cols)
DropHighMissing(t) ==
    LET idx == Ascending((1..Len(t.cols)) \ DropCols(t))
    IN [cols |-> [k \in 1..Len(idx) |-> t.cols[idx[k]]],
        dtype |-> [k \in 1..Len(idx) |-> t.dtype[idx[k]]],
        rows |-> [i \in 1..Len(t.rows) |->
                     [k \in 1..Len(idx) |-> t.rows[i][idx[k]]]]]

RECURSIVE InsertSorted(_, _)
InsertSorted(x, s) ==
    IF s = <<>> THEN <<x>>
    ELSE IF x <= Head(s) THEN <<x>> \o s
    ELSE <<Head(s)>> \o InsertSorted(x, Tail(s))

RECURSIVE SortInts(_)
SortInts(s) == IF s = <<>> THEN <<>> ELSE InsertSorted(Head(s), SortInts(Tail(s)))

\* The present numbers of a column (in halves), in column order
PresentNums(cells) ==
    LET idx == Ascending({i \in 1..Len(cells) : cells[i].k = "num"})
    IN [k \in 1..Len(idx) |-> cells[idx[k]].n]

\* A median that takes the lower of the two middle values of an even count
MedianLowerMiddle(cells) ==
    LET s == SortInts(PresentNums(cells))
    IN IF Len(s) = 0 THEN NA ELSE Half(s[(Len(s) + 1) \div 2])

\* Series.median(): of the present values; NaN (here NA) when there is none
Median(cells) ==
    LET s == SortInts(PresentNums(cells))
        n == Len(s)
    IN IF n = 0 THEN NA
       ELSE IF n % 2 = 1 THEN Half(s[(n + 1) \div 2])
       ELSE Half((s[n \div 2] + s[n \div 2 + 1]) \div 2)

\* Series.mode(dropna=True): the most frequent present values, sorted
ModeSet(cells) ==
    LET present == {i \in 1..Len(cells) : ~IsNA(cells[i])}
        Count(c) == Cardinality({i \in present : cells[i] = c})
    IN {cells[i] : i \in {i \in present :
                             \A k \in present : Count(cells[k]) <= Count(cells[i])}}

\* mode_series.iloc[0] if len(mode_series) > 0 else "Unknown"
FillValue(cells) ==
    LET m == ModeSet(cells)
    IN IF m = {} THEN Str(Unknown)
       ELSE CHOOSE c \in m : \A d \in m : d = c \/ StrLess(c.s, d.s)

\* Series.fillna(v): filling with NaN fills nothing
FillNA(t, j, v) ==
    [t EXCEPT !.rows = [i \in 1..Len(t.rows) |->
                           [t.rows[i] EXCEPT ![j] =
                               IF IsNA(t.rows[i][j]) THEN v ELSE @]]]

HasMissing(t, j) == MissingCount(t, j) > 0

\* for col in num_cols: if df[col].isna().any(): fillna(median)
RECURSIVE ImputeNumFrom(_, _)
ImputeNumFrom(t, j) ==
    IF j > Len(t.cols) THEN t
    ELSE IF IsNumeric(t, j) /\ HasMissing(t, j)
    THEN ImputeNumFrom(FillNA(t, j, Median(Column(t, j))), j + 1)
    ELSE ImputeNumFrom(t, j + 1)

ImputeNumeric(t) == ImputeNumFrom(t, 1)

\* for col in cat_cols: if df[col].isna().any(): fillna(fill_value)
RECURSIVE ImputeCatFrom(_, _)
ImputeCatFrom(t, j) ==
    IF j > Len(t.cols) THEN t
    ELSE IF ~IsNumeric(t, j) /\ HasMissing(t, j)
    THEN ImputeCatFrom(FillNA(t, j, FillValue(Column(t, j))), j + 1)
    ELSE ImputeCatFrom(t, j + 1)

ImputeCategorical(t) == ImputeCatFrom(t, 1)

----------------------------------------------------------------------------
(* The Analyzer's computations *)

\* colname(df, target): the first column whose lower-cased name equals the
\* lower-cased target; 0 stands for None.
ColName(t, target) ==
    LET hits == {j \in 1..Len(t.cols) : StrLower(t.cols[j]) = StrLower(target)}
    IN IF hits = {} THEN 0 ELSE CHOOSE j \in hits : \A k \in hits : j <= k

\* A quantile that takes the lower of the two neighbouring values
QuantileLower(s, k) == 4 * s[(k * (Len(s) - 1)) \div 4 + 1]

\* Series.quantile(k/4) with linear interpolation, on the sorted present
\* values s (in halves): a + (b - a) * frac at position (k/4) * (n - 1).
\* The result is four times the quantile (in halves).
Quantile(s, k) ==
    LET pos == k * (Len(s) - 1)
        lo == pos \div 4 + 1
        r == pos % 4
    IN IF r = 0 THEN 4 * s[lo] ELSE (4 - r) * s[lo] + r * s[lo + 1]

\* Q1, Q3, IQR and the two fences of a column, in sixteenths of a unit, and
\* the number of present values outside the fences.
IqrStats(cells) ==
    LET s == SortInts(PresentNums(cells))
        Q1 == 2 * Quantile(s, 1)
        Q3 == 2 * Quantile(s, 3)
        IQR == Q3 - Q1
        lower == Q1 - (3 * IQR) \div 2
        upper == Q3 + (3 * IQR) \div 2
    IN [Q1 |-> Q1, Q3 |-> Q3, IQR |-> IQR, lower |-> lower, upper |-> upper,
        count |-> Cardinality({i \in 1..Len(s) :
                                  8 * s[i] < lower \/ 8 * s[i] > upper})]

NoStats == [Q1 |-> 0, Q3 |-> 0, IQR |-> 0, lower |-> 0, upper |-> 0, count |-> 0]

\* An entry of a report: a key and the value num/den (nan: no value)
Entry(key, num, den) ==
    [key |-> key, num |-> num, den |-> IF den = 0 THEN 1 ELSE den,
     nan |-> den = 0]

\* a sorts before b in descending order; a missing value sorts last
Above(a, b) == ~a.nan /\ (b.nan \/ a.num * b.den > b.num * a.den)

\* The place of x among the entries s that follow it, already sorted: before
\* the first entry that is not above it
RECURSIVE InsertDescending(_, _)
InsertDescending(x, s) ==
    IF s = <<>> THEN <<x>>
    ELSE IF ~Above(Head(s), x) THEN <<x>> \o s
    ELSE <<Head(s)>> \o InsertDescending(x, Tail(s))

RECURSIVE SortDescendingFrom(_, _)
SortDescendingFrom(s, i) ==
    IF i > Len(s) THEN <<>>
    ELSE InsertDescending(s[i], SortDescendingFrom(s, i + 1))

\* sort_values() with the default ascending=True: the reverse order
SortAscending(s) ==
    LET d == SortDescendingFrom(s, 1)
    IN [i \in 1..Len(d) |-> d[Len(d) + 1 - i]]

\* Series.sort_values(ascending=False): largest first, missing last, equal
\* values in their original order
SortDescending(s) == SortDescendingFrom(s, 1)

\* Section 5: outlier_report for every numeric column, then sorted
OutlierStats(t) ==
    [j \in {j \in 1..Len(t.cols) : IsNumeric(t, j)} |->
        IF PresentNums(Column(t, j)) = <<>> THEN NoStats
        ELSE IqrStats(Column(t, j))]

OutlierSeries(t) ==
    LET idx == Ascending({j \in 1..Len(t.cols) : IsNumeric(t, j)})
    IN SortDescending([k \in 1..Len(idx) |->
                          Entry(t.cols[idx[k]], OutlierStats(t)[idx[k]].count, 1)])

\* pd.to_numeric(errors="coerce"): a text of letters becomes missing
ToNumeric(c) == IF c.k = "num" THEN c ELSE NA

CoerceColumn(t, j) ==
    [t EXCEPT !.dtype = [@ EXCEPT ![j] = "num"],
              !.rows = [i \in 1..Len(t.rows) |->
                           [t.rows[i] EXCEPT ![j] = ToNumeric(@)]]]

\* Order of the group keys: numbers by value, texts by code point
CellLess(a, b) == IF a.k = "num" THEN a.n < b.n ELSE StrLess(a.s, b.s)

RECURSIVE SortedKeys(_)
SortedKeys(S) ==
    IF S = {} THEN <<>>
    ELSE LET m == CHOOSE x \in S : \A y \in S : y = x \/ CellLess(x, y)
         IN <<m>> \o SortedKeys(S \ {m})

RECURSIVE SumOver(_, _)
SumOver(f, S) ==
    IF S = {} THEN 0
    ELSE LET x == CHOOSE x \in S : TRUE IN f[x] + SumOver(f, S \ {x})

\* The mean of the present values of column v over the rows in R
MeanEntry(t, key, v, R) ==
    LET P == {i \in R : ~IsNA(t.rows[i][v])}
    IN Entry(key, SumOver([i \in P |-> t.rows[i][v].n], P), 2 * Cardinality(P))

\* df.groupby(g)[v].mean(): one group per distinct present value of g, in
\* key order; the mean of the present values of v in the group
GroupMean(t, g, v) ==
    LET keys == SortedKeys({t.rows[i][g] : i \in {i \in 1..Len(t.rows) :
                                                    ~IsNA(t.rows[i][g])}})
    IN [k \in 1..Len(keys) |->
           MeanEntry(t, keys[k], v, {i \in 1..Len(t.rows) : t.rows[i][g] = keys[k]})]

Bins == 10

\* pd.cut(x, bins=10) for one value, in exact arithmetic: the bins are the
\* equal-width right-closed intervals of [mn, mx]; the minimum falls in the
\* first.  (mn < mx)
BinOf(x, mn, mx) ==
    IF x = mn THEN 1
    ELSE CHOOSE b \in 1..Bins :
            /\ Bins * (x - mn) <= b * (mx - mn)
            /\ Bins * (x - mn) > (b - 1) * (mx - mn)

\* The rows of temp after dropna(): age and outcome both numeric
ValidRows(t, a, v) ==
    {i \in 1..Len(t.rows) :
        ~IsNA(ToNumeric(t.rows[i][a])) /\ ~IsNA(ToNumeric(t.rows[i][v]))}

\* temp.groupby("age_bin")[surv_col].mean(): one entry per bin, in bin
\* order.  single: the bin of the value when all ages are equal.
BinMeans(t, a, v, single) ==
    LET R == ValidRows(t, a, v)
        ages == {t.rows[i][a].n : i \in R}
        mn == CHOOSE x \in ages : \A y \in ages : x <= y
        mx == CHOOSE x \in ages : \A y \in ages : x >= y
        bin(i) == IF mn = mx THEN single ELSE BinOf(t.rows[i][a].n, mn, mx)
    IN [b \in 1..Bins |->
           LET P == {i \in R : bin(i) = b}
           IN Entry(Num(b), SumOver([i \in P |-> t.rows[i][v].n], P),
                    2 * Cardinality(P))]

----------------------------------------------------------------------------
(* Files, messages and the initial states *)

OutputFile == "titanic_cleaned.csv"

NoExc == [type |-> "none", file |-> ""]

MaxRows == 3

\* The tables of at most MaxRows rows over two columns with the given fields
Tables(cols, A, B) ==
    UNION { { File(cols, rows) : rows \in [1..n -> {<<a, b>> : a \in A, b \in B}] }
            : n \in 0..MaxRows }

Empty == Str(<<>>)

CAge == <<"A","g","e">>
CSurvived == <<"S","u","r","v","i","v","e","d">>
CName == <<"N","a","m","e">>
CCabin == <<"C","a","b","i","n">>
CFare == <<"F","a","r","e">>
CPassengerId == <<"P","a","s","s","e","n","g","e","r","I","d">>
Male == <<"m","a","l","e">>
Female == <<"f","e","m","a","l","e">>

\* Raw input tables: small tables over the column names the scripts look
\* for, in several casings, with texts that need trimming and case folding.
SmallRawTables ==
    Tables(<<NSex, CAge>>, {Empty, Str(<<"m">>), Str(<<" ","M">>)},
           {Empty, Num(1), Num(3)})
    \cup Tables(<<TSex, CSurvived>>, {Str(<<"m">>), Str(<<" ","F">>)}, {Empty, Num(0), Num(1)})
    \cup Tables(<<NTicket, NEmbarked>>, {Str(<<"a">>), Str(<<" ","A">>), Str(<<"n","a">>)},
                {Empty, Str(<<" ">>), Str(<<"s">>)})
    \cup Tables(<<StrLower(NTicket), StrLower(NEmbarked)>>,
                {Str(<<"a">>), Str(<<" ","A">>)}, {Str(<<" ">>), Str(<<"s">>)})
    \cup Tables(<<StrUpper(NSex), CName>>, {Str(<<"m">>), Str(<<" ","F">>)},
                {Str(<<"a">>), Str(<<"b"," ">>)})
    \cup Tables(<<NTicket, CAge>>, {Empty, Num(7)}, {Empty, Num(1)})
    \cup Tables(<<CAge, CSurvived>>, {Empty, Num(1), Num(3)}, {Num(0), Num(1)})

\* Ten rows: Cabin missing in 7 of them, Age missing in 6
ThresholdTable ==
    File(<<CPassengerId, CCabin, CAge>>,
         [i \in 1..10 |-> <<Num(i),
                            IF i <= 7 THEN Empty ELSE Str(<<"c">>),
                            IF i <= 6 THEN Empty ELSE Num(20 + i)>>])

RawTables == SmallRawTables \cup {ThresholdTable}

OutlierValues == <<1, 2, 2, 3, 3, 3, 4, 4, 5, 100>>

OutlierFile ==
    File(<<CFare>>, [i \in 1..Len(OutlierValues) |-> <<Num(OutlierValues[i])>>])

AggregationFile ==
    File(<<TSex, TSurvived>>,
         << <<Str(Male), Num(0)>>, <<Str(Male), Num(1)>>,
            <<Str(Female), Num(1)>>, <<Str(Female), Num(1)>> >>)

\* Files found as titanic_cleaned.csv that no run of the Cleaner wrote
GivenCleanedFiles == {OutlierFile, AggregationFile}

Init ==
    /\ pc = "idle"
    /\ \/ raw \in RawTables /\ cleaned = Absent
       \/ raw = Absent /\ cleaned \in GivenCleanedFiles \cup {Absent}
    /\ df = NoTable
    /\ prev = NoTable
    /\ run = 0
    /\ exc = NoExc
    /\ usedUnknown = FALSE
    /\ medianUndefined = FALSE
    /\ outDir = FALSE
    /\ artifacts = {}
    /\ msgs = {}
    /\ outlier_report = <<>>
    /\ fences = <<>>
    /\ survival_by_sex = <<>>
    /\ survival_by_agebin = <<>>

analyzerVars == <<outDir, artifacts, msgs, outlier_report, fences,
                  survival_by_sex, survival_by_agebin>>
cleanerFlags == <<usedUnknown, medianUndefined>>

----------------------------------------------------------------------------
(* The Cleaner, section by section *)

\* Sections 1-3: pd.read_csv(input_path) and the printed reports
CleanerLoad ==
    /\ pc = "idle"
    /\ IF raw.exists
       THEN /\ df' = ReadCsv(raw)
            /\ pc' = "c_loaded"
            /\ exc' = NoExc
       ELSE /\ df' = df
            /\ pc' = "c_error"
            /\ exc' = [type |-> "FileNotFoundError", file |-> "data\titanic_raw.csv"]
    /\ prev' = NoTable
    /\ UNCHANGED <<raw, cleaned, run, cleanerFlags, analyzerVars>>

\* Section 4: remove duplicates
CleanerDedup ==
    /\ pc = "c_loaded"
    /\ prev' = df
    /\ df' = DropDuplicates(df)
    /\ pc' = "c_deduped"
    /\ UNCHANGED <<raw, cleaned, run, exc, cleanerFlags, analyzerVars>>

\* Section 5: text cleanup; .str on a numeric Sex or Ticket column raises
CleanerNormalize ==
    /\ pc = "c_deduped"
    /\ prev' = df
    /\ IF NormalizeRaises(df)
       THEN /\ df' = IF StrAccessorOk(StripText(df), NSex)
                      THEN MapCells(StripText(df), Designated(df, NSex), "lower")
                      ELSE StripText(df)
            /\ pc' = "c_error"
            /\ exc' = [type |-> "AttributeError", file |-> ""]
       ELSE /\ df' = NormalizeText(df)
            /\ pc' = "c_normalized"
            /\ exc' = exc
    /\ UNCHANGED <<raw, cleaned, run, cleanerFlags, analyzerVars>>

\* Section 6, first part: drop the columns with more than 60% missing
CleanerDropColumns ==
    /\ pc = "c_normalized"
    /\ prev' = df
    /\ df' = DropHighMissing(df)
    /\ pc' = "c_dropped"
    /\ UNCHANGED <<raw, cleaned, run, exc, cleanerFlags, analyzerVars>>

\* Section 6, second part: numeric columns filled with the median
CleanerImputeNumeric ==
    /\ pc = "c_dropped"
    /\ prev' = df
    /\ df' = ImputeNumeric(df)
    /\ medianUndefined' =
          (medianUndefined \/
           \E j \in 1..Len(df.cols) :
              IsNumeric(df, j) /\ HasMissing(df, j) /\ IsNA(Median(Column(df, j))))
    /\ pc' = "c_num_filled"
    /\ UNCHANGED <<raw, cleaned, run, exc, usedUnknown, analyzerVars>>

\* Section 6, third part: the other columns filled with the mode
CleanerImputeCategorical ==
    /\ pc = "c_num_filled"
    /\ prev' = df
    /\ df' = ImputeCategorical(df)
    /\ usedUnknown' =
          (usedUnknown \/
           \E j \in 1..Len(df.cols) :
              ~IsNumeric(df, j) /\ HasMissing(df, j) /\ ModeSet(Column(df, j)) = {})
    /\ pc' = "c_imputed"
    /\ UNCHANGED <<raw, cleaned, run, exc, medianUndefined, analyzerVars>>

\* Sections 7-8: the report after cleaning and df.to_csv(output_file)
CleanerSave ==
    /\ pc = "c_imputed"
    /\ cleaned' = WriteCsv(df)
    /\ run' = run + 1
    /\ pc' = "c_done"
    /\ UNCHANGED <<raw, df, prev, exc, cleanerFlags, analyzerVars>>

\* The Cleaner is run again on the table it wrote: its output becomes its
\* input.
RunAgainOnOutput ==
    /\ pc = "c_done"
    /\ run = 1
    /\ raw' = cleaned
    /\ pc' = "idle"
    /\ df' = NoTable
    /\ prev' = NoTable
    /\ UNCHANGED <<cleaned, run, exc, cleanerFlags, analyzerVars>>

----------------------------------------------------------------------------
(* The Analyzer, section by section *)

InputFile == "titanic_cleaned.csv"

\* A check that never reports the file missing
InputMissingNever(f) == FALSE

\* not os.path.exists(input_file)
InputMissing(f) == ~f.exists

NumCols(t) == {j \in 1..Len(t.cols) : IsNumeric(t, j)}

\* Section 1, lines 41-45: the input file must exist.  The Analyzer is started
\* on the file it finds before any Cleaner run, or after the first one.
AnalyzerCheckInput ==
    /\ pc \in {"idle", "c_done"}
    /\ run <= 1
    /\ IF InputMissing(cleaned)
       THEN pc' = "a_error" /\ exc' = [type |-> "FileNotFoundError", file |-> InputFile]
       ELSE pc' = "a_checked" /\ exc' = NoExc
    /\ UNCHANGED <<raw, cleaned, df, prev, run, cleanerFlags, analyzerVars>>

\* Sections 1-2, lines 47-69: read the table, create the output directory
AnalyzerLoad ==
    /\ pc = "a_checked"
    /\ df' = ReadCsv(cleaned)
    /\ prev' = NoTable
    /\ outDir' = TRUE
    /\ pc' = "a_loaded"
    /\ UNCHANGED <<raw, cleaned, run, exc, cleanerFlags, artifacts, msgs,
                   outlier_report, fences, survival_by_sex, survival_by_agebin>>

\* Sections 3-4: numeric statistics report, categorical counts (printed).
\* The numbers in the statistics report are not modelled.
AnalyzerStats ==
    /\ pc = "a_loaded"
    /\ IF NumCols(df) = {}
       THEN /\ msgs' = msgs \cup {"No numeric columns found."}
            /\ artifacts' = artifacts
       ELSE /\ msgs' = msgs
            /\ artifacts' = artifacts \cup {"basic_stats_numeric.csv"}
    /\ pc' = "a_stats"
    /\ UNCHANGED <<raw, cleaned, df, prev, run, exc, cleanerFlags, outDir,
                   outlier_report, fences, survival_by_sex, survival_by_agebin>>

\* Section 5: outliers by the IQR method
AnalyzerOutliers ==
    /\ pc = "a_stats"
    /\ fences' = OutlierStats(df)
    /\ outlier_report' = OutlierSeries(df)
    /\ artifacts' = artifacts \cup {"outlier_report_iqr.csv"}
    /\ pc' = "a_outliers"
    /\ UNCHANGED <<raw, cleaned, df, prev, run, exc, cleanerFlags, outDir, msgs,
                   survival_by_sex, survival_by_agebin>>

\* Sections 6-7: correlation matrix and heatmap, histograms.  The
\* coefficients are not modelled.
AnalyzerCorrelation ==
    /\ pc = "a_outliers"
    /\ LET corr == IF Cardinality(NumCols(df)) >= 2
                   THEN {"correlation_matrix.csv", "correlation_heatmap.png"}
                   ELSE {}
           hist == IF NumCols(df) # {} THEN {"histograms_numeric.png"} ELSE {}
       IN /\ artifacts' = artifacts \cup corr \cup hist
          /\ msgs' = IF corr = {}
                     THEN msgs \cup {"Not enough numeric columns for correlation."}
                     ELSE msgs
    /\ pc' = "a_corr"
    /\ UNCHANGED <<raw, cleaned, df, prev, run, exc, cleanerFlags, outDir,
                   outlier_report, fences, survival_by_sex, survival_by_agebin>>

\* Sections 8-9: counts by sex (chart), survival rate by sex
AnalyzerSurvivalBySex ==
    /\ pc = "a_corr"
    /\ LET sex_col == ColName(df, TSex)
           surv_col == ColName(df, TSurvived)
           bar == IF sex_col # 0 THEN {"bar_sex_counts.png"} ELSE {}
           m1 == IF sex_col = 0
                 THEN {"'sex' column not found. Skipping sex bar chart."}
                 ELSE {}
       IN IF sex_col # 0 /\ surv_col # 0
          THEN /\ df' = CoerceColumn(df, surv_col)
               /\ survival_by_sex' =
                     SortDescending(GroupMean(CoerceColumn(df, surv_col), sex_col, surv_col))
               /\ artifacts' = artifacts \cup bar \cup
                     {"bar_survival_rate_by_sex.png", "survival_rate_by_sex.csv"}
               /\ msgs' = msgs \cup m1
          ELSE /\ df' = df
               /\ survival_by_sex' = survival_by_sex
               /\ artifacts' = artifacts \cup bar
               /\ msgs' = msgs \cup m1 \cup
                     {"Need both 'sex' and 'survived' for survival-by-sex plot. Skipping."}
    /\ pc' = "a_by_sex"
    /\ UNCHANGED <<raw, cleaned, prev, run, exc, cleanerFlags, outDir,
                   outlier_report, fences, survival_by_agebin>>

\* Section 10: survival rate across age bins.  When every age is the same
\* value v, the bin edges are spread around v and v lies on the middle edge:
\* floating-point rounding decides between the two middle bins.
AnalyzerAgeBins ==
    /\ pc = "a_by_sex"
    /\ LET age_col == ColName(df, TAge)
           surv_col == ColName(df, TSurvived)
       IN IF age_col = 0 \/ surv_col = 0
          THEN /\ msgs' = msgs \cup {"Need both 'age' and 'survived' for line plot. Skipping."}
               /\ UNCHANGED <<artifacts, survival_by_agebin>>
          ELSE IF ValidRows(df, age_col, surv_col) = {}
          THEN /\ msgs' = msgs \cup
                     {"No valid rows for age/survived line plot after dropping NaNs."}
               /\ UNCHANGED <<artifacts, survival_by_agebin>>
          ELSE \E single \in
                    IF Cardinality({df.rows[i][age_col] :
                                      i \in ValidRows(df, age_col, surv_col)}) = 1
                    THEN {Bins \div 2, Bins \div 2 + 1} ELSE {Bins \div 2} :
                  /\ survival_by_agebin' = BinMeans(df, age_col, surv_col, single)
                  /\ artifacts' = artifacts \cup
                        {"line_survival_rate_by_age_bins.png",
                         "survival_rate_by_age_bins.csv"}
                  /\ msgs' = msgs
    /\ pc' = "a_done"
    /\ UNCHANGED <<raw, cleaned, df, prev, run, exc, cleanerFlags, outDir,
                   outlier_report, fences, survival_by_sex>>

----------------------------------------------------------------------------

Next ==
    \/ CleanerLoad
    \/ CleanerDedup
    \/ CleanerNormalize
    \/ CleanerDropColumns
    \/ CleanerImputeNumeric
    \/ CleanerImputeCategorical
    \/ CleanerSave
    \/ RunAgainOnOutput
    \/ AnalyzerCheckInput
    \/ AnalyzerLoad
    \/ AnalyzerStats
    \/ AnalyzerOutliers
    \/ AnalyzerCorrelation
    \/ AnalyzerSurvivalBySex
    \/ AnalyzerAgeBins

Spec == Init /\ [][Next]_vars

----------------------------------------------------------------------------
(* Properties *)

CleanerRunning ==
    pc \in {"c_loaded", "c_deduped", "c_normalized", "c_dropped",
            "c_num_filled", "c_imputed"}

\* The column of t named name, or 0
Named(t, name) ==
    IF HasCol(t, name) THEN ColIdx(t, name) ELSE 0

\* C1: running the Cleaner a second time, on the table it wrote the first
\* time, writes an identical table.
C1_Idempotent ==
    (pc = "c_done" /\ run = 2) => cleaned = raw

\* x is the value at position p of the sorted values v[i], i in P
AtRank(v, P, p, x) ==
    /\ Cardinality({i \in P : v[i] < x}) < p
    /\ p <= Cardinality({i \in P : v[i] <= x})

\* m (in halves) is the median of the present numbers of the cells
IsMedianOf(m, cells) ==
    LET P == {i \in 1..Len(cells) : cells[i].k = "num"}
        v == [i \in P |-> cells[i].n]
        n == Cardinality(P)
    IN \E a \in P, b \in P :
          /\ AtRank(v, P, (n + 1) \div 2, v[a])
          /\ AtRank(v, P, n \div 2 + 1, v[b])
          /\ 2 * m = v[a] + v[b]

\* c is one of the most frequent present values of the cells
IsModeOf(c, cells) ==
    LET P == {i \in 1..Len(cells) : ~IsNA(cells[i])}
        N(x) == Cardinality({i \in P : cells[i] = x})
    IN (\E i \in P : cells[i] = c) /\ \A i \in P : N(cells[i]) <= N(c)

C3_DropIffAboveThreshold ==
    pc = "c_dropped" =>
       /\ \A j \in 1..Len(prev.cols) :
             /\ HasCol(df, prev.cols[j]) <=>
                   ~(10 * MissingCount(prev, j) > 6 * Len(prev.rows))
             /\ HasCol(df, prev.cols[j]) =>
                   Column(df, Named(df, prev.cols[j])) = Column(prev, j)
       /\ \A j \in 1..Len(df.cols) : HasCol(prev, df.cols[j])
       /\ raw = ThresholdTable =>
             /\ MissingCount(prev, Named(prev, CCabin)) = 7
             /\ MissingCount(prev, Named(prev, CAge)) = 6
             /\ Len(prev.rows) = 10
             /\ ~HasCol(df, CCabin)
             /\ HasCol(df, CAge)

C3_Witness ==
    /\ pc = "c_dropped"
    /\ raw = ThresholdTable
    /\ Len(df.cols) = 2

\* C4: duplicate removal keeps exactly the first occurrence of every
\* distinct row, in input order: no two rows of the result are equal, and
\* the k-th row of the result is the k-th first occurrence of the input.
C4_DedupKeepsFirst ==
    pc = "c_deduped" =>
       LET first == {i \in 1..Len(prev.rows) :
                        \A j \in 1..(i - 1) : prev.rows[j] # prev.rows[i]}
       IN /\ Len(df.rows) = Cardinality(first)
          /\ Len(df.rows) <= Len(prev.rows)
          /\ df.cols = prev.cols
          /\ \A a \in 1..Len(df.rows), b \in 1..Len(df.rows) :
                a # b => df.rows[a] # df.rows[b]
          /\ \A k \in 1..Len(df.rows) :
                \E i \in first :
                   /\ Cardinality({h \in first : h < i}) = k - 1
                   /\ df.rows[k] = prev.rows[i]

\* A duplicate was removed from between two distinct rows
C4_Witness ==
    /\ pc = "c_deduped"
    /\ Len(df.rows) >= 2
    /\ Len(prev.rows) > Len(df.rows)
    /\ prev.rows[Len(prev.rows)] = prev.rows[1]

OutlierScenario == pc = "a_outliers" /\ cleaned = OutlierFile

\* C5 as stated: for [1,2,2,3,3,3,4,4,5,100], Q1 = 2, Q3 = 4, IQR = 2, the
\* fences are -1 and 7, and one value is an outlier (in sixteenths).
C5_AsStated ==
    OutlierScenario =>
       /\ fences[1].Q1 = 16 * 2
       /\ fences[1].Q3 = 16 * 4
       /\ fences[1].IQR = 16 * 2
       /\ fences[1].lower = 16 * (-1)
       /\ fences[1].upper = 16 * 7
       /\ fences[1].count = 1

\* C5 amended: for [1,2,2,3,3,3,4,4,5,100], linear interpolation gives
\* Q1 = 2.25 and Q3 = 4, IQR = 1.75, the fences are -0.375 and 6.625, and
\* exactly one value (100) is outside them.
C5_LinearQuartiles ==
    OutlierScenario =>
       /\ fences[1].Q1 = 36
       /\ fences[1].Q3 = 64
       /\ fences[1].IQR = 28
       /\ fences[1].lower = -6
       /\ fences[1].upper = 106
       /\ fences[1].count = 1
       /\ {i \in 1..Len(OutlierValues) :
              16 * OutlierValues[i] < fences[1].lower
              \/ 16 * OutlierValues[i] > fences[1].upper} = {10}
       /\ outlier_report = <<Entry(CFare, 1, 1)>>

C5_Witness == OutlierScenario /\ Len(outlier_report) = 1

\* C6: the rate by sex has one group per distinct value of the sex column,
\* each with the mean of the numeric-coerced survived column over the
\* group's rows, ordered by rate descending; for {male,0}, {male,1},
\* {female,1}, {female,1} it reports female = 1.0 then male = 0.5.
C6_RateBySex ==
    (pc = "a_by_sex" /\ ColName(df, TSex) # 0 /\ ColName(df, TSurvived) # 0) =>
       LET g == ColName(df, TSex)
           v == ColName(df, TSurvived)
           f == ReadCsv(cleaned)
           keys == {df.rows[i][g] : i \in {i \in 1..Len(df.rows) : ~IsNA(df.rows[i][g])}}
           R(key) == {i \in 1..Len(df.rows) :
                         df.rows[i][g] = key /\ f.rows[i][v].k = "num"}
       IN /\ {survival_by_sex[k].key : k \in 1..Len(survival_by_sex)} = keys
          /\ Len(survival_by_sex) = Cardinality(keys)
          /\ \A k \in 1..Len(survival_by_sex) :
                LET e == survival_by_sex[k]
                IN IF R(e.key) = {} THEN e.nan
                   ELSE /\ ~e.nan
                        /\ e.num * 2 * Cardinality(R(e.key)) =
                              e.den * SumOver([i \in R(e.key) |-> f.rows[i][v].n],
                                              R(e.key))
          /\ \A a \in 1..Len(survival_by_sex), b \in 1..Len(survival_by_sex) :
                a < b => ~Above(survival_by_sex[b], survival_by_sex[a])
          /\ cleaned = AggregationFile =>
                /\ Len(survival_by_sex) = 2
                /\ survival_by_sex[1].key = Str(Female)
                /\ survival_by_sex[1].num = survival_by_sex[1].den
                /\ survival_by_sex[2].key = Str(Male)
                /\ 2 * survival_by_sex[2].num = survival_by_sex[2].den

C6_Witness ==
    /\ pc = "a_by_sex"
    /\ cleaned = AggregationFile
    /\ Len(survival_by_sex) = 2

\* What text normalization makes of the cell p of a column, given whether the
\* column is text and which of the designated columns it is taken to be
Normalized(p, isText, isSex, isTicket, isEmbarked) ==
    IF ~isText \/ p.k # "str" THEN p
    ELSE LET s == StrStrip(p.s)
         IN IF isSex THEN Str(StrLower(s))
            ELSE IF isTicket THEN Str(StrUpper(s))
            ELSE IF isEmbarked /\ s = <<>> THEN NA
            ELSE Str(s)

SameIgnoringCase(a, b) == StrLower(a) = StrLower(b)

\* C7 as stated: the designated columns are found by case-insensitive name
\* match: any casing of 'sex' is lowercased, any casing of 'ticket' is
\* uppercased, any casing of 'embarked' has its empty values made missing;
\* other columns are only trimmed (text) or unchanged (numeric).
C7_AsStated ==
    pc = "c_normalized" =>
       \A i \in 1..Len(df.rows), j \in 1..Len(df.cols) :
          df.rows[i][j] =
             Normalized(prev.rows[i][j], prev.dtype[j] = "object",
                        SameIgnoringCase(prev.cols[j], NSex),
                        SameIgnoringCase(prev.cols[j], NTicket),
                        SameIgnoringCase(prev.cols[j], NEmbarked))

\* C7 amended: the designated columns are found by exact name: the text
\* column named 'Sex' is trimmed and lowercased, 'Ticket' trimmed and
\* uppercased, 'Embarked' trimmed with its empty values made missing; every
\* other column, a differently cased 'sex', 'ticket' or 'embarked' included,
\* is only trimmed (text) or unchanged (numeric).  The step raises
\* AttributeError exactly when 'Sex' or 'Ticket' is a numeric column.
C7_ExactNames ==
    LET numericDesignated ==
           \E j \in 1..Len(prev.cols) :
              prev.cols[j] \in {NSex, NTicket} /\ prev.dtype[j] = "num"
    IN /\ pc = "c_normalized" =>
             /\ ~numericDesignated
             /\ df.cols = prev.cols
             /\ Len(df.rows) = Len(prev.rows)
             /\ \A i \in 1..Len(df.rows), j \in 1..Len(df.cols) :
                   df.rows[i][j] =
                      Normalized(prev.rows[i][j], prev.dtype[j] = "object",
                                 prev.cols[j] = NSex, prev.cols[j] = NTicket,
                                 prev.cols[j] = NEmbarked)
       /\ (pc = "c_error" /\ exc.type = "AttributeError") => numericDesignated

\* A column named 'sex' has been trimmed and still holds an upper-case value
C7_Witness ==
    /\ pc = "c_normalized"
    /\ HasCol(df, TSex)
    /\ \E i \in 1..Len(df.rows) :
          /\ prev.rows[i][ColIdx(prev, TSex)] = Str(<<" ", "F">>)
          /\ df.rows[i][ColIdx(df, TSex)] = Str(<<"F">>)

AnalyzerPastCheck ==
    pc \in {"a_checked", "a_loaded", "a_stats", "a_outliers", "a_corr",
            "a_by_sex", "a_done"}

\* C8: when titanic_cleaned.csv does not exist the Analyzer aborts with an
\* error that names that file, before the output directory is created and
\* before anything is written; when it exists the error is not raised.
C8_MissingInputAborts ==
    /\ pc = "a_error" =>
          /\ ~cleaned.exists
          /\ exc = [type |-> "FileNotFoundError", file |-> "titanic_cleaned.csv"]
          /\ ~outDir
          /\ artifacts = {}
    /\ AnalyzerPastCheck => cleaned.exists /\ exc = NoExc
    /\ (outDir \/ artifacts # {}) => AnalyzerPastCheck /\ pc # "a_checked"

C8_Witness ==
    /\ pc = "a_error"
    /\ ~cleaned.exists
    /\ exc.file = InputFile

ZeroRowInput == raw.exists /\ Len(raw.rows) = 0 /\ Len(raw.cols) > 0

\* C9: for an input with a header and no rows the Cleaner raises nothing and
\* writes a table of no rows with the same columns (none dropped, nothing
\* imputed); the Analyzer run on that output raises nothing, and each of its
\* reports is empty or skipped with a message.
C9_EmptyInput ==
    ZeroRowInput =>
       /\ pc # "c_error"
       /\ CleanerRunning => df.cols = raw.cols /\ df.rows = <<>>
       /\ ~usedUnknown /\ ~medianUndefined
       /\ run >= 1 =>
             /\ cleaned = File(raw.cols, <<>>)
             /\ pc # "a_error"
             /\ exc = NoExc
       /\ (run >= 1 /\ pc = "a_done") =>
             /\ "basic_stats_numeric.csv" \notin artifacts
             /\ "No numeric columns found." \in msgs
             /\ outlier_report = <<>>
             /\ "correlation_matrix.csv" \notin artifacts
             /\ "Not enough numeric columns for correlation." \in msgs
             /\ survival_by_sex = <<>>
             /\ \/ "survival_rate_by_sex.csv" \in artifacts
                \/ "Need both 'sex' and 'survived' for survival-by-sex plot. Skipping."
                      \in msgs
             /\ survival_by_agebin = <<>>
             /\ \/ "No valid rows for age/survived line plot after dropping NaNs."
                      \in msgs
                \/ "Need both 'age' and 'survived' for line plot. Skipping." \in msgs

\* The Analyzer has finished on the empty table the Cleaner wrote for an
\* input that has a Sex column
C9_Witness ==
    /\ ZeroRowInput
    /\ run = 1
    /\ pc = "a_done"
    /\ HasCol(raw, NSex)
    /\ cleaned = File(raw.cols, <<>>)

====
